---- MODULE Spec2Model ----
(***************************************************************************)
(* PII guardrails of litellm-app: the pattern detector                     *)
(* (pii_regex_detection.py), the contextual detector                       *)
(* (pii_presidio_detection.py) and the four interceptors built on them     *)
(* (pii_{regex,presidio}_{precall,postcall}.py).                           *)
(*                                                                         *)
(* A text is a sequence of one-character strings.  Confidence scores and   *)
(* thresholds are percentages (0.7 is 70).  Positions in a text are the    *)
(* 0-based offsets of Python; a TLA+ sequence is indexed from 1.           *)
(***************************************************************************)
EXTENDS Integers, Sequences, FiniteSets, TLC

(***************************************************************************)
(* Characters and the regular expressions of re.compile                    *)
(***************************************************************************)
Digits == {"0", "1", "2", "3", "4", "5", "6", "7", "8", "9"}

Upper == {"A", "B", "C", "D", "E", "F", "G", "H", "I", "J", "K", "L", "M",
          "N", "O", "P", "Q", "R", "S", "T", "U", "V", "W", "X", "Y", "Z"}

Lower == {"a", "b", "c", "d", "e", "f", "g", "h", "i", "j", "k", "l", "m",
          "n", "o", "p", "q", "r", "s", "t", "u", "v", "w", "x", "y", "z"}

Letters == Upper \cup Lower

\* \s and the characters str.strip() removes
Whitespace == {" ", "\t", "\n", "\r", "\f"}

\* \w, the characters between which \b finds no boundary
WordChars == Letters \cup Digits \cup {"_"}

\* regular expression nodes
Chr(S) == [kind |-> "class", set |-> S]

Cat(rs) == [kind |-> "cat", parts |-> rs]

Alt(rs) == [kind |-> "alt", parts |-> rs]

\* r{lo,hi}; hi = -1 is "no upper limit"
Rep(r, lo, hi) == [kind |-> "rep", of |-> r, lo |-> lo, hi |-> hi]

Opt(r) == Rep(r, 0, 1)

Times(r, n) == Rep(r, n, n)

WordB == [kind |-> "wordb"]

IsWordAt(text, k) == k >= 1 /\ k <= Len(text) /\ text[k] \in WordChars

RECURSIVE Ends(_, _, _)
RECURSIVE EndsCat(_, _, _, _)
RECURSIVE EndsRep(_, _, _, _)
\* the offsets at which a match of r that starts at offset i of text can end
Ends(r, text, i) ==
    CASE r.kind = "class" ->
           IF i < Len(text) /\ text[i + 1] \in r.set THEN {i + 1} ELSE {}
      [] r.kind = "wordb" ->
           IF IsWordAt(text, i) # IsWordAt(text, i + 1) THEN {i} ELSE {}
      [] r.kind = "cat" -> EndsCat(r.parts, 1, text, {i})
      [] r.kind = "alt" ->
           UNION {Ends(r.parts[k], text, i) : k \in 1..Len(r.parts)}
      [] r.kind = "rep" -> EndsRep(r, text, {i}, 0)

EndsCat(parts, k, text, from) ==
    IF k > Len(parts) \/ from = {}
    THEN from
    ELSE EndsCat(parts, k + 1, text,
                 UNION {Ends(parts[k], text, i) : i \in from})

\* from: the offsets reached after n repetitions of r.of
EndsRep(r, text, from, n) ==
    (IF n >= r.lo THEN from ELSE {})
    \cup (IF from # {} /\ (r.hi = -1 \/ n < r.hi)
          THEN EndsRep(r, text,
                       UNION {Ends(r.of, text, i) : i \in from}, n + 1)
          ELSE {})

\* bool(pattern.search(text)): a match starts somewhere in the text
Search(pattern, text) == \E i \in 0..Len(text) : Ends(pattern, text, i) # {}

Sep(S) == Opt(Chr(S))

D(n) == Times(Chr(Digits), n)

email_pattern ==
    Cat(<<WordB,
          Rep(Chr(Letters \cup Digits \cup {".", "_", "%", "+", "-"}), 1, -1),
          Chr({"@"}),
          Rep(Chr(Letters \cup Digits \cup {".", "-"}), 1, -1),
          Chr({"."}),
          Rep(Chr(Letters), 2, -1),
          WordB>>)

ssn_pattern ==
    Cat(<<WordB,
          Alt(<<Cat(<<D(3), Sep({"-"} \cup Whitespace), D(2),
                      Sep({"-"} \cup Whitespace), D(4)>>),
                D(9)>>),
          WordB>>)

phone_pattern ==
    Cat(<<WordB,
          Opt(Cat(<<Opt(Chr({"+"})), Chr({"1"}),
                    Sep({"-", "."} \cup Whitespace)>>)),
          Opt(Chr({"("})), D(3), Opt(Chr({")"})),
          Sep({"-", "."} \cup Whitespace), D(3),
          Sep({"-", "."} \cup Whitespace), D(4),
          WordB>>)

CardSep == Sep(Whitespace \cup {"-"})

credit_card_pattern ==
    Cat(<<WordB,
          Alt(<<Cat(<<Chr({"4"}), D(3), CardSep, D(4), CardSep, D(4), CardSep,
                      D(4), Opt(D(3))>>),
                Cat(<<Chr({"5"}), Chr({"1", "2", "3", "4", "5"}), D(2), CardSep,
                      D(4), CardSep, D(4), CardSep, D(4)>>),
                Cat(<<Chr({"3"}), Chr({"4", "7"}), D(2), CardSep, D(6), CardSep,
                      D(5)>>),
                Cat(<<Chr({"6"}),
                      Alt(<<Cat(<<Chr({"0"}), Chr({"1"}), Chr({"1"})>>),
                            Cat(<<Chr({"5"}), D(2)>>)>>),
                      CardSep, D(4), CardSep, D(4), CardSep, D(4)>>)>>),
          WordB>>)

(***************************************************************************)
(* PIIRegexDetection                                                       *)
(***************************************************************************)
\* "not text" of a str
Falsy(text) == Len(text) = 0

\* a detector that knows the e-mail matcher only
Regex_has_pii_email_only(text) ==
    IF Falsy(text) THEN FALSE ELSE Search(email_pattern, text)

Regex_has_pii(text) ==
    IF Falsy(text)
    THEN FALSE
    ELSE \/ Search(email_pattern, text)
         \/ Search(ssn_pattern, text)
         \/ Search(phone_pattern, text)
         \/ Search(credit_card_pattern, text)

Regex_get_detected_types(text) ==
    IF Falsy(text)
    THEN <<>>
    ELSE (IF Search(email_pattern, text) THEN <<"email">> ELSE <<>>)
         \o (IF Search(ssn_pattern, text) THEN <<"ssn">> ELSE <<>>)
         \o (IF Search(phone_pattern, text) THEN <<"phone">> ELSE <<>>)
         \o (IF Search(credit_card_pattern, text)
             THEN <<"credit_card">> ELSE <<>>)

(***************************************************************************)
(* PIIPresidioDetection                                                    *)
(***************************************************************************)
DefaultEntities ==
    <<"PERSON", "EMAIL_ADDRESS", "PHONE_NUMBER", "US_SSN", "CREDIT_CARD",
      "LOCATION", "ORGANIZATION", "DATE_TIME", "IP_ADDRESS", "URL",
      "US_DRIVER_LICENSE", "US_PASSPORT", "IBAN_CODE", "US_BANK_NUMBER",
      "CRYPTO", "MEDICAL_LICENSE", "NRP">>

\* str.lower() on the entity type names
str_lower(s) ==
    CASE s = "PERSON" -> "person"
      [] s = "EMAIL_ADDRESS" -> "email_address"
      [] s = "PHONE_NUMBER" -> "phone_number"
      [] s = "US_SSN" -> "us_ssn"
      [] s = "CREDIT_CARD" -> "credit_card"
      [] s = "LOCATION" -> "location"
      [] s = "ORGANIZATION" -> "organization"
      [] s = "DATE_TIME" -> "date_time"
      [] s = "IP_ADDRESS" -> "ip_address"
      [] s = "URL" -> "url"
      [] s = "US_DRIVER_LICENSE" -> "us_driver_license"
      [] s = "US_PASSPORT" -> "us_passport"
      [] s = "IBAN_CODE" -> "iban_code"
      [] s = "US_BANK_NUMBER" -> "us_bank_number"
      [] s = "CRYPTO" -> "crypto"
      [] s = "MEDICAL_LICENSE" -> "medical_license"
      [] s = "NRP" -> "nrp"
      [] OTHER -> s

RECURSIVE LStrip(_)
LStrip(text) ==
    IF Len(text) > 0 /\ Head(text) \in Whitespace
    THEN LStrip(Tail(text))
    ELSE text

RECURSIVE RStrip(_)
RStrip(text) ==
    IF Len(text) > 0 /\ text[Len(text)] \in Whitespace
    THEN RStrip(SubSeq(text, 1, Len(text) - 1))
    ELSE text

\* text.strip()
Strip(text) == RStrip(LStrip(text))

\* the guard without the strip()
BlankIfEmpty(text) == Falsy(text)

\* "not text or not text.strip()"
Blank(text) == Falsy(text) \/ Falsy(Strip(text))

Range(seq) == {seq[k] : k \in DOMAIN seq}

\* list(set(...)): the elements of S, each once, in an order the set
\* implementation chooses
ListsOfSet(S) ==
    {l \in [1..Cardinality(S) -> S] : Range(l) = S}

\* text[start:end] for 0 <= start <= end
Slice(text, start, end) ==
    SubSeq(text, start + 1, IF end > Len(text) THEN Len(text) ELSE end)

\* A call of a detector method yields
\*   raised:  an exception left the method
\*   value:   what it returned otherwise
\*   invoked: it called self.analyzer.analyze
\* answer is what the recognizer does when called: it returns
\* answer.results (answer.ok) or throws.
Returned(value, invoked) ==
    [raised |-> FALSE, value |-> value, invoked |-> invoked]

\* has_pii without its try/except
Presidio_has_pii_unguarded(text, threshold, answer) ==
    IF Blank(text)
    THEN Returned(FALSE, FALSE)
    ELSE IF answer.ok
         THEN Returned(\E k \in DOMAIN answer.results :
                           answer.results[k].score >= threshold, TRUE)
         ELSE [raised |-> TRUE, value |-> FALSE, invoked |-> TRUE]

Presidio_has_pii(text, threshold, answer) ==
    IF Blank(text)
    THEN Returned(FALSE, FALSE)
    ELSE IF answer.ok
         THEN Returned(\E k \in DOMAIN answer.results :
                           answer.results[k].score >= threshold, TRUE)
         ELSE Returned(FALSE, TRUE)

EntityDict(text, result) ==
    [entity_type |-> result.entity_type,
     start |-> result.start,
     end |-> result.end,
     score |-> result.score,
     text |-> Slice(text, result.start, result.end)]

\* the loop with the comparison turned round
Detected_at_most(text, threshold, results) ==
    LET kept == SelectSeq(results, LAMBDA r : r.score <= threshold)
    IN  [k \in DOMAIN kept |-> EntityDict(text, kept[k])]

RECURSIVE Detected(_, _, _)
\* the loop over results: those at or above the threshold, in order
Detected(text, threshold, results) ==
    IF results = <<>>
    THEN <<>>
    ELSE (IF Head(results).score >= threshold
          THEN <<EntityDict(text, Head(results))>>
          ELSE <<>>) \o Detected(text, threshold, Tail(results))

Presidio_get_detected_entities(text, threshold, answer) ==
    IF Blank(text)
    THEN Returned(<<>>, FALSE)
    ELSE IF answer.ok
         THEN Returned(Detected(text, threshold, answer.results), TRUE)
         ELSE Returned(<<>>, TRUE)

\* the possible outcomes: one for each order list(set(...)) can produce
Presidio_get_detected_types(text, threshold, answer) ==
    LET got == Presidio_get_detected_entities(text, threshold, answer)
        entities == got.value
    IN  {Returned(l, got.invoked) :
            l \in ListsOfSet({str_lower(entities[k].entity_type) :
                                  k \in DOMAIN entities})}

Presidio_get_analysis_summary(text, threshold, answer) ==
    LET got == Presidio_get_detected_entities(text, threshold, answer)
        entities == got.value
    IN  {Returned([has_pii |-> Len(entities) > 0,
                   entity_count |-> Len(entities),
                   entity_types |-> l,
                   entities |-> entities], got.invoked) :
            l \in ListsOfSet({entities[k].entity_type :
                                  k \in DOMAIN entities})}

(***************************************************************************)
(* Bounds of the model                                                     *)
(***************************************************************************)
\* the longest list of messages or of choices
MaxUnits == 2

\* the longest whitespace-only text a detector method is called with
MaxBlank == 2

\* the longest list of messages or of choices when two invocations are
\* followed (two on one instance, or a pre-call and a post-call one)
MaxConcurrentUnits == 2

\* the longest list of messages or of choices of an invocation that is
\* followed to its end
MaxLiveUnits == 2

(***************************************************************************)
(* Values                                                                  *)
(***************************************************************************)
\* kwargs.get("threshold", 0.7)
DefaultThreshold == 70

None == [is_none |-> TRUE]

Some(v) == [is_none |-> FALSE, val |-> v]

\* a content: None, a str, or a value of another type (a list of parts)
NoContent == [type |-> "none", chars |-> <<>>]

ListContent == [type |-> "list", chars |-> <<>>]

Str(chars) == [type |-> "str", chars |-> chars]

\* a hook that takes every content for a text
AnyContent(content) == TRUE

\* isinstance(content, str)
IsStr(content) == content.type = "str"

\* the truth value of a content: None and "" are false
Truthy(content) == content.type = "list" \/ (IsStr(content) /\ Len(content.chars) > 0)

Result(type, start, end, score) ==
    [entity_type |-> type, start |-> start, end |-> end, score |-> score]

PresidioPre == [backend |-> "presidio", hook |-> "pre"]

PresidioPost == [backend |-> "presidio", hook |-> "post"]

RegexPre == [backend |-> "regex", hook |-> "pre"]

RegexPost == [backend |-> "regex", hook |-> "post"]

Classes == {PresidioPre, PresidioPost, RegexPre, RegexPost}

NoInstance == [created |-> FALSE]

NoMessages == [present |-> FALSE, list |-> <<>>]

Messages(list) == [present |-> TRUE, list |-> list]

NotReturned == [kind |-> "pending"]

ReturnedData(d) == [kind |-> "data", value |-> d]

ReturnedNone == [kind |-> "None"]

NotRaised == [kind |-> "none"]

NoProbe == [method |-> "none"]

\* no second invocation
NoFrame == [active |-> FALSE]

\* an exception other than the guardrail's own ValueError
OtherError == [kind |-> "Exception"]

(***************************************************************************)
(* The inputs                                                              *)
(***************************************************************************)
EmptyText == <<>>

BlankText == <<" ", "\t">>

CleanText == <<"h", "i">>

MailText == <<"A", "l", " ", "a", "@", "b", ".", "c", "o">>

SsnText == <<"1", "2", "3", "-", "4", "5", "-", "6", "7", "8", "9">>

PhoneText == <<"5", "5", "5", "-", "1", "2", "3", "-", "4", "5", "6", "7">>

CardText ==
    <<"4", "1", "1", "1", "1", "1", "1", "1", "1", "1", "1", "1", "1", "1", "1",
      "1">>

\* a name and a place, nothing in a structured format
NamesText == <<"A", "l", ",", " ", "R", "o", "m", "e">>

\* What a healthy recognizer finds in a text is an input of the model: the
\* recognizer is a library.  For MailText: nothing, a name (once or twice), a
\* name and an address, with scores on either side of the thresholds.
MailFindings ==
    {<<>>,
     <<Result("PERSON", 0, 2, 85)>>,
     <<Result("PERSON", 0, 2, 60)>>,
     <<Result("PERSON", 0, 2, 85), Result("PERSON", 3, 4, 85)>>,
     <<Result("PERSON", 0, 2, 85), Result("EMAIL_ADDRESS", 3, 9, 100)>>}

\* the address reported before the name
MailFindingsReversed ==
    <<Result("EMAIL_ADDRESS", 3, 9, 100), Result("PERSON", 0, 2, 85)>>

\* a unit of a payload: the content, whether a choice is a litellm.Choices,
\* and what a healthy recognizer finds in the content
Unit(content, is_choices, found) ==
    [content |-> content, is_choices |-> is_choices, found |-> found]

PresidioUnits ==
    {Unit(NoContent, TRUE, <<>>),
     Unit(ListContent, TRUE, <<>>),
     Unit(Str(EmptyText), TRUE, <<>>),
     Unit(Str(BlankText), TRUE, <<Result("PERSON", 0, 1, 85)>>),
     Unit(Str(CleanText), TRUE, <<>>)}
    \cup {Unit(Str(MailText), TRUE, f) : f \in MailFindings}

RegexUnits ==
    {Unit(NoContent, TRUE, <<>>),
     Unit(ListContent, TRUE, <<>>),
     Unit(Str(EmptyText), TRUE, <<>>),
     Unit(Str(BlankText), TRUE, <<>>),
     Unit(Str(CleanText), TRUE, <<>>),
     Unit(Str(MailText), TRUE, <<>>),
     Unit(Str(SsnText), TRUE, <<>>),
     Unit(Str(PhoneText), TRUE, <<>>),
     Unit(Str(CardText), TRUE, <<>>),
     Unit(Str(NamesText), TRUE, <<>>)}

\* a choice that is not a litellm.Choices (a streaming choice)
OtherChoice == Unit(Str(MailText), FALSE, <<Result("PERSON", 0, 2, 85)>>)

UnitsOf(c) ==
    (IF c.backend = "presidio" THEN PresidioUnits ELSE RegexUnits)
    \cup (IF c.hook = "post" THEN {OtherChoice} ELSE {})

SeqsUpTo(S, n) == UNION {[1..m -> S] : m \in 0..n}

\* the keyword arguments a guardrail is constructed with
KwargsOf(c) ==
    LET full == [threshold |-> 50, block_on_detection |-> FALSE,
                 entities |-> <<"EMAIL_ADDRESS">>]
        keys == IF c.backend = "presidio"
                THEN SUBSET {"threshold", "block_on_detection", "entities"}
                ELSE SUBSET {"block_on_detection"}
    IN  {[k \in K |-> full[k]] : K \in keys}

\* kwargs.get(key, default)
Get(kw, key, default) == IF key \in DOMAIN kw THEN kw[key] ELSE default

(***************************************************************************)
(* State                                                                   *)
(***************************************************************************)
VARIABLES
    cls,        \* the guardrail class under construction or in use
    kwargs,     \* the keyword arguments of the constructor
    self,       \* the guardrail instance, NoInstance until constructed
    attempts,   \* the recognizer configurations the constructor tried, in order
    data,       \* the request payload
    response,   \* the response object
    pc,         \* "new", "ready", "scan", "done", "init_failed"
    i,          \* the position of the hook's loop (1 is Python's index 0)
    ret,        \* what the hook returned
    raised,     \* the exception that left the hook or the constructor
    warnings,   \* the warnings the hook logged, in order
    calls,      \* the detector calls the hook made, in order
    probe,      \* the last call of a detector method made outside a hook
    earlier,    \* the call made before it
    other       \* the invocation that runs concurrently, while it is suspended

vars ==
    <<cls, kwargs, self, attempts, data, response, pc, i, ret, raised,
      warnings, calls, probe, earlier, other>>

config == <<cls, kwargs, self, attempts>>

payload == <<data, response>>

Init ==
    /\ cls \in Classes
    /\ kwargs \in KwargsOf(cls)
    /\ self = NoInstance
    /\ attempts = <<>>
    /\ IF cls.hook = "pre"
       THEN /\ data \in {[messages |-> NoMessages]}
                        \cup {[messages |-> Messages(l)] :
                                 l \in SeqsUpTo(UnitsOf(cls), MaxUnits)}
            /\ response = [is_model_response |-> FALSE, choices |-> <<>>]
       ELSE /\ data = [messages |-> Messages(<<>>)]
            /\ response \in
                 {[is_model_response |-> FALSE, choices |-> <<>>]}
                 \cup {[is_model_response |-> TRUE, choices |-> l] :
                          l \in SeqsUpTo(UnitsOf(cls), MaxUnits)}
    /\ pc = "new"
    /\ i = 1
    /\ ret = NotReturned
    /\ raised = NotRaised
    /\ warnings = <<>>
    /\ calls = <<>>
    /\ probe = NoProbe
    /\ earlier = NoProbe
    /\ other = NoFrame

(***************************************************************************)
(* Construction                                                            *)
(***************************************************************************)
\* one attempt to build a recognizer
Attempt(configuration, ok) == [configuration |-> configuration, ok |-> ok]

\* a constructor without the fallback
Presidio_init_no_fallback(language, entities_to_detect, preferred_ok, default_ok) ==
    LET fields == [kind |-> "presidio",
                   language |-> language,
                   entities_to_detect |->
                       IF entities_to_detect.is_none
                       THEN DefaultEntities
                       ELSE entities_to_detect.val]
    IN  IF preferred_ok
        THEN [raised |-> FALSE, tried |-> <<Attempt("spacy", TRUE)>>,
              detector |-> fields @@ [analyzer |-> "spacy"]]
        ELSE [raised |-> TRUE, tried |-> <<Attempt("spacy", FALSE)>>,
              detector |-> fields @@ [analyzer |-> "none"]]

\* PIIPresidioDetection.__init__: preferred_ok and default_ok say whether
\* the spaCy-backed engine and AnalyzerEngine() can be built.  The result is
\* the detector, or raised when the fallback throws too.
Presidio_init(language, entities_to_detect, preferred_ok, default_ok) ==
    LET fields == [kind |-> "presidio",
                   language |-> language,
                   entities_to_detect |->
                       IF entities_to_detect.is_none
                       THEN DefaultEntities
                       ELSE entities_to_detect.val]
    IN  IF preferred_ok
        THEN [raised |-> FALSE, tried |-> <<Attempt("spacy", TRUE)>>,
              detector |-> fields @@ [analyzer |-> "spacy"]]
        ELSE IF default_ok
             THEN [raised |-> FALSE,
                   tried |-> <<Attempt("spacy", FALSE),
                               Attempt("default", TRUE)>>,
                   detector |-> fields @@ [analyzer |-> "default"]]
             ELSE [raised |-> TRUE,
                   tried |-> <<Attempt("spacy", FALSE),
                               Attempt("default", FALSE)>>,
                   detector |-> fields @@ [analyzer |-> "none"]]

\* PIIPresidioPreCallGuardrail.__init__ and PIIPresidioPostCallGuardrail.__init__
PresidioGuardrail_init ==
    /\ pc = "new"
    /\ cls.backend = "presidio"
    /\ \E preferred_ok \in BOOLEAN, default_ok \in BOOLEAN :
          LET language == Get(kwargs, "language", "en")
              threshold == Get(kwargs, "threshold", DefaultThreshold)
              entities == IF "entities" \in DOMAIN kwargs
                          THEN Some(kwargs["entities"])
                          ELSE None
              block == Get(kwargs, "block_on_detection", TRUE)
              built == Presidio_init(language, entities, preferred_ok,
                                     default_ok)
          IN  /\ attempts' = built.tried
              /\ IF built.raised
                 THEN /\ self' = NoInstance
                      /\ raised' = OtherError
                      /\ pc' = "init_failed"
                 ELSE /\ self' = [created |-> TRUE,
                                  optional_params |-> kwargs,
                                  language |-> language,
                                  threshold |-> threshold,
                                  entities |-> entities,
                                  block_on_detection |-> block,
                                  detector |-> built.detector]
                      /\ raised' = NotRaised
                      /\ pc' = "ready"
    /\ UNCHANGED <<cls, kwargs, payload, i, ret, warnings, calls, probe,
                   earlier, other>>

\* PIIRegexPreCallGuardrail.__init__ and PIIRegexPostCallGuardrail.__init__
RegexGuardrail_init ==
    /\ pc = "new"
    /\ cls.backend = "regex"
    /\ self' = [created |-> TRUE,
                optional_params |-> kwargs,
                detector |-> [kind |-> "regex"]]
    /\ pc' = "ready"
    /\ UNCHANGED <<cls, kwargs, attempts, payload, i, ret, raised, warnings,
                   calls, probe,
                   earlier, other>>

(***************************************************************************)
(* The recognizer and the records of the hooks                             *)
(***************************************************************************)
RECURSIVE Allowed(_, _)
\* the findings of the entity types asked for
Allowed(found, entities) ==
    IF found = <<>>
    THEN <<>>
    ELSE (IF Head(found).entity_type \in Range(entities)
          THEN <<Head(found)>>
          ELSE <<>>) \o Allowed(Tail(found), entities)

\* self.analyzer.analyze(text=..., entities=..., language=...): the findings
\* of a healthy recognizer, or an exception
Analyze(unit, detector) ==
    {[ok |-> FALSE, results |-> <<>>],
     [ok |-> TRUE, results |-> Allowed(unit.found, detector.entities_to_detect)]}

\* one detector call of a hook, as the trace of the invocation keeps it
\* engine: the recognizer was not called ("unused"), answered or failed
Call(n, op, got, answer, has_pii, types) ==
    [unit |-> n, op |-> op,
     engine |-> IF ~got.invoked THEN "unused"
                ELSE IF answer.ok THEN "answered" ELSE "failed",
     has_pii |-> has_pii, types |-> types]

\* the pattern detector calls no recognizer
NoAnswer == [ok |-> TRUE, results |-> <<>>]

Warning(event, n, types) == [event |-> event, unit |-> n, types |-> types]

\* ValueError(message); unit is the position of the loop it was raised at,
\* kept for the trace only
ValueError(message, n) ==
    [kind |-> "ValueError", message |-> message, unit |-> n]

\* a violation that is noted while the loop goes on
RaiseAfterLoop(exception) ==
    /\ raised' = exception
    /\ pc' = pc
    /\ i' = i + 1

\* "raise": the exception leaves the loop and the hook
Raise(exception) ==
    /\ raised' = exception
    /\ pc' = "done"
    /\ i' = i

\* what leaves a hook when a detector method throws
Propagated == OtherError

(***************************************************************************)
(* PIIPresidioPreCallGuardrail.async_pre_call_hook                         *)
(***************************************************************************)
\* a message that names the type of every finding, repeated or not
PresidioPre_message_per_finding(analysis, threshold) ==
    [prefix |-> "Pre-call Presidio guardrail blocked PII detected",
     detected |-> [k \in DOMAIN analysis.entities |->
                      analysis.entities[k].entity_type],
     threshold |-> threshold]

\* f"Pre-call Presidio guardrail blocked PII detected: {detected_types}
\*   (confidence >= {self.threshold})", detected_types the joined entity_types
PresidioPre_message(analysis, threshold) ==
    [prefix |-> "Pre-call Presidio guardrail blocked PII detected",
     detected |-> analysis.entity_types,
     threshold |-> threshold]

\* a guardrail that only logs, whatever its configuration
NeverBlocks(guardrail) == FALSE

\* whether a detection ends the invocation
PresidioPre_blocks(guardrail) == guardrail.block_on_detection

PresidioPre_begin ==
    /\ pc = "ready"
    /\ cls = PresidioPre
    /\ IF ~data.messages.present \/ data.messages.list = <<>>
       THEN /\ ret' = ReturnedData(data)
            /\ pc' = "done"
       ELSE /\ ret' = ret
            /\ pc' = "scan"
    /\ i' = 1
    /\ UNCHANGED <<config, payload, raised, warnings, calls, probe,
                   earlier, other>>

\* one iteration of "for i, message in enumerate(_messages)"
PresidioPre_unit ==
    /\ pc = "scan"
    /\ cls = PresidioPre
    /\ i <= Len(data.messages.list)
    /\ LET message == data.messages.list[i]
           _content == message.content
       IN  IF ~IsStr(_content)
           THEN /\ i' = i + 1
                /\ UNCHANGED <<pc, raised, warnings, calls, probe>>
           ELSE \E a1 \in Analyze(message, self.detector) :
                  LET found == Presidio_has_pii(_content.chars,
                                                self.threshold, a1)
                      call1 == Call(i, "has_pii", found, a1, found.value, <<>>)
                  IN  IF found.raised
                      THEN /\ Raise(Propagated)
                           /\ UNCHANGED <<warnings, calls, probe>>
                      ELSE IF ~found.value
                      THEN /\ calls' = Append(calls, call1)
                           /\ i' = i + 1
                           /\ UNCHANGED <<pc, raised, warnings>>
                      ELSE \E a2 \in Analyze(message, self.detector) :
                           \E got \in Presidio_get_analysis_summary(
                                          _content.chars, self.threshold, a2) :
                             LET analysis == got.value
                                 call2 == Call(i, "get_analysis_summary", got,
                                               a2, analysis.has_pii,
                                               analysis.entity_types)
                                 seen == Warning("detected", i,
                                                 analysis.entity_types)
                             IN  /\ calls' = calls \o <<call1, call2>>
                                 /\ IF PresidioPre_blocks(self)
                                    THEN /\ warnings' = Append(warnings, seen)
                                         /\ Raise(ValueError(
                                              PresidioPre_message(
                                                  analysis, self.threshold),
                                              i))
                                    ELSE /\ warnings' = warnings \o
                                              <<seen,
                                                Warning("not_blocking", i,
                                                    analysis.entity_types)>>
                                         /\ i' = i + 1
                                         /\ UNCHANGED <<pc, raised>>
    /\ UNCHANGED <<config, payload, ret, probe,
                   earlier, other>>

\* a hook that blanks the contents before it returns the payload
PresidioPre_return_redacted ==
    /\ pc = "scan"
    /\ cls = PresidioPre
    /\ i > Len(data.messages.list)
    /\ data' = [messages |->
                  Messages([n \in DOMAIN data.messages.list |->
                              [data.messages.list[n] EXCEPT
                                  !.content = Str(<<>>)]])]
    /\ ret' = ReturnedData(data')
    /\ pc' = "done"
    /\ UNCHANGED <<config, response, i, raised, warnings, calls, probe,
                   earlier, other>>

\* a hook that scans again when a detector call failed
PresidioPre_return_retrying ==
    /\ pc = "scan"
    /\ cls = PresidioPre
    /\ i > Len(data.messages.list)
    /\ IF \E k \in DOMAIN calls : calls[k].engine = "failed"
       THEN /\ i' = 1
            /\ calls' = <<>>
            /\ UNCHANGED <<ret, pc>>
       ELSE /\ ret' = ReturnedData(data)
            /\ pc' = "done"
            /\ UNCHANGED <<i, calls>>
    /\ UNCHANGED <<config, payload, raised, warnings, probe, earlier, other>>

PresidioPre_return ==
    /\ pc = "scan"
    /\ cls = PresidioPre
    /\ i > Len(data.messages.list)
    /\ ret' = ReturnedData(data)
    /\ pc' = "done"
    /\ UNCHANGED <<config, payload, i, raised, warnings, calls, probe,
                   earlier, other>>

(***************************************************************************)
(* PIIPresidioPostCallGuardrail.async_post_call_success_hook               *)
(***************************************************************************)
\* a message that lists the lower-cased type names
PresidioPost_message_lower(analysis, threshold) ==
    [prefix |-> "Post-call Presidio guardrail blocked PII detected",
     detected |-> [k \in DOMAIN analysis.entity_types |->
                      str_lower(analysis.entity_types[k])],
     threshold |-> threshold]

PresidioPost_message(analysis, threshold) ==
    [prefix |-> "Post-call Presidio guardrail blocked PII detected",
     detected |-> analysis.entity_types,
     threshold |-> threshold]

\* a guardrail that ignores block_on_detection = False
AlwaysBlocks(guardrail) == TRUE

PresidioPost_blocks(guardrail) == guardrail.block_on_detection

PresidioPost_begin ==
    /\ pc = "ready"
    /\ cls = PresidioPost
    /\ IF ~response.is_model_response
       THEN /\ ret' = ReturnedNone
            /\ pc' = "done"
       ELSE /\ ret' = ret
            /\ pc' = "scan"
    /\ i' = 1
    /\ UNCHANGED <<config, payload, raised, warnings, calls, probe,
                   earlier, other>>

\* one iteration of "for choice_idx, choice in enumerate(response.choices)"
PresidioPost_unit ==
    /\ pc = "scan"
    /\ cls = PresidioPost
    /\ i <= Len(response.choices)
    /\ LET choice == response.choices[i]
           content == choice.content
       IN  IF ~choice.is_choices \/ ~Truthy(content) \/ ~IsStr(content)
           THEN /\ i' = i + 1
                /\ UNCHANGED <<pc, raised, warnings, calls, probe>>
           ELSE \E a1 \in Analyze(choice, self.detector) :
                  LET found == Presidio_has_pii(content.chars,
                                                self.threshold, a1)
                      call1 == Call(i, "has_pii", found, a1, found.value, <<>>)
                  IN  IF found.raised
                      THEN /\ Raise(Propagated)
                           /\ UNCHANGED <<warnings, calls, probe>>
                      ELSE IF ~found.value
                      THEN /\ calls' = Append(calls, call1)
                           /\ i' = i + 1
                           /\ UNCHANGED <<pc, raised, warnings>>
                      ELSE \E a2 \in Analyze(choice, self.detector) :
                           \E got \in Presidio_get_analysis_summary(
                                          content.chars, self.threshold, a2) :
                             LET analysis == got.value
                                 call2 == Call(i, "get_analysis_summary", got,
                                               a2, analysis.has_pii,
                                               analysis.entity_types)
                                 seen == Warning("detected", i,
                                                 analysis.entity_types)
                             IN  /\ calls' = calls \o <<call1, call2>>
                                 /\ IF PresidioPost_blocks(self)
                                    THEN /\ warnings' = Append(warnings, seen)
                                         /\ Raise(ValueError(
                                              PresidioPost_message(
                                                  analysis, self.threshold),
                                              i))
                                    ELSE /\ warnings' = warnings \o
                                              <<seen,
                                                Warning("not_blocking", i,
                                                    analysis.entity_types)>>
                                         /\ i' = i + 1
                                         /\ UNCHANGED <<pc, raised>>
    /\ UNCHANGED <<config, payload, ret, probe,
                   earlier, other>>

PresidioPost_return ==
    /\ pc = "scan"
    /\ cls = PresidioPost
    /\ i > Len(response.choices)
    /\ ret' = ReturnedNone
    /\ pc' = "done"
    /\ UNCHANGED <<config, payload, i, raised, warnings, calls, probe,
                   earlier, other>>

(***************************************************************************)
(* PIIRegexPreCallGuardrail.async_pre_call_hook                            *)
(***************************************************************************)
\* f"Pre-call guardrail blocked PII detected: {', '.join(detected_types)}"
RegexPre_message(detected_types) ==
    [prefix |-> "Pre-call guardrail blocked PII detected",
     detected |-> detected_types]

RegexPre_begin ==
    /\ pc = "ready"
    /\ cls = RegexPre
    /\ IF ~data.messages.present \/ data.messages.list = <<>>
       THEN /\ ret' = ReturnedData(data)
            /\ pc' = "done"
       ELSE /\ ret' = ret
            /\ pc' = "scan"
    /\ i' = 1
    /\ UNCHANGED <<config, payload, raised, warnings, calls, probe,
                   earlier, other>>

\* one iteration of "for message in _messages"
RegexPre_unit ==
    /\ pc = "scan"
    /\ cls = RegexPre
    /\ i <= Len(data.messages.list)
    /\ LET _content == data.messages.list[i].content
       IN  IF ~IsStr(_content)
           THEN /\ i' = i + 1
                /\ UNCHANGED <<pc, raised, calls>>
           ELSE LET found == Regex_has_pii(_content.chars)
                    call1 == Call(i, "has_pii", Returned(found, FALSE),
                                  NoAnswer, found, <<>>)
                IN  IF ~found
                    THEN /\ calls' = Append(calls, call1)
                         /\ i' = i + 1
                         /\ UNCHANGED <<pc, raised>>
                    ELSE LET detected_types ==
                                 Regex_get_detected_types(_content.chars)
                             call2 == Call(i, "get_detected_types",
                                           Returned(detected_types, FALSE),
                                           NoAnswer, detected_types # <<>>,
                                           detected_types)
                         IN  /\ calls' = calls \o <<call1, call2>>
                             /\ Raise(ValueError(
                                    RegexPre_message(detected_types), i))
    /\ UNCHANGED <<config, payload, ret, warnings, probe,
                   earlier, other>>

RegexPre_return ==
    /\ pc = "scan"
    /\ cls = RegexPre
    /\ i > Len(data.messages.list)
    /\ ret' = ReturnedData(data)
    /\ pc' = "done"
    /\ UNCHANGED <<config, payload, i, raised, warnings, calls, probe,
                   earlier, other>>

(***************************************************************************)
(* PIIRegexPostCallGuardrail.async_post_call_success_hook                  *)
(***************************************************************************)
\* f"Post-call guardrail blocked PII detected: {', '.join(detected_types)}"
RegexPost_message(detected_types) ==
    [prefix |-> "Post-call guardrail blocked PII detected",
     detected |-> detected_types]

RegexPost_begin ==
    /\ pc = "ready"
    /\ cls = RegexPost
    /\ IF ~response.is_model_response
       THEN /\ ret' = ReturnedNone
            /\ pc' = "done"
       ELSE /\ ret' = ret
            /\ pc' = "scan"
    /\ i' = 1
    /\ UNCHANGED <<config, payload, raised, warnings, calls, probe,
                   earlier, other>>

\* one iteration of "for choice in response.choices"
RegexPost_unit ==
    /\ pc = "scan"
    /\ cls = RegexPost
    /\ i <= Len(response.choices)
    /\ LET choice == response.choices[i]
           content == choice.content
       IN  IF ~choice.is_choices \/ ~Truthy(content) \/ ~IsStr(content)
           THEN /\ i' = i + 1
                /\ UNCHANGED <<pc, raised, calls>>
           ELSE LET found == Regex_has_pii(content.chars)
                    call1 == Call(i, "has_pii", Returned(found, FALSE),
                                  NoAnswer, found, <<>>)
                IN  IF ~found
                    THEN /\ calls' = Append(calls, call1)
                         /\ i' = i + 1
                         /\ UNCHANGED <<pc, raised>>
                    ELSE LET detected_types ==
                                 Regex_get_detected_types(content.chars)
                             call2 == Call(i, "get_detected_types",
                                           Returned(detected_types, FALSE),
                                           NoAnswer, detected_types # <<>>,
                                           detected_types)
                         IN  /\ calls' = calls \o <<call1, call2>>
                             /\ Raise(ValueError(
                                    RegexPost_message(detected_types), i))
    /\ UNCHANGED <<config, payload, ret, warnings, probe,
                   earlier, other>>

RegexPost_return ==
    /\ pc = "scan"
    /\ cls = RegexPost
    /\ i > Len(response.choices)
    /\ ret' = ReturnedNone
    /\ pc' = "done"
    /\ UNCHANGED <<config, payload, i, raised, warnings, calls, probe,
                   earlier, other>>

(***************************************************************************)
(* Detector methods called outside a hook, on the detector of a guardrail  *)
(* whose payload is empty                                                  *)
(***************************************************************************)
ProbeThresholds == {50, DefaultThreshold, 90}

\* the whitespace the blank texts are made of
BlankChars == {" ", "\t", "\n"}

\* the texts of the payloads, and every whitespace-only text up to MaxBlank
\* characters, in which the recognizer (wrongly) reports a name
ProbeUnits ==
    {u \in PresidioUnits \cup RegexUnits : IsStr(u.content)}
    \cup {Unit(Str(MailText), TRUE, MailFindingsReversed)}
    \cup {Unit(Str(t), TRUE,
               IF t = <<>> THEN <<>> ELSE <<Result("PERSON", 0, 1, 85)>>) :
             t \in SeqsUpTo(BlankChars, MaxBlank)}

Idle ==
    /\ pc = "ready"
    /\ IF cls.hook = "pre"
       THEN ~data.messages.present
       ELSE ~response.is_model_response

\* a detector method can be called: for the first time, or once more on
\* the text of the call before
Probing(method) ==
    Idle \/ (pc = "probed" /\ earlier = NoProbe /\ probe.method = method)

ProbeTargets == IF pc = "probed" THEN {probe.unit} ELSE ProbeUnits

Probed(method, unit, threshold, answer, got) ==
    [method |-> method, unit |-> unit, threshold |-> threshold,
     engine |-> IF ~got.invoked THEN "unused"
                ELSE IF answer.ok THEN "answered" ELSE "failed",
     raised |-> got.raised, out |-> got.value]

\* a detector method that keeps what it was asked for last
Detector_narrowed(detector) ==
    IF detector.kind = "presidio"
    THEN [detector EXCEPT !.entities_to_detect = <<>>]
    ELSE detector

\* the detector object after a call of one of its methods: no method
\* assigns an attribute
Detector_after_call(detector) == detector

Call_presidio_has_pii ==
    /\ Probing("has_pii")
    /\ cls.backend = "presidio"
    /\ \E unit \in ProbeTargets, threshold \in ProbeThresholds :
       \E answer \in Analyze(unit, self.detector) :
          probe' = Probed("has_pii", unit, threshold, answer,
                          Presidio_has_pii(unit.content.chars, threshold,
                                           answer))
    /\ earlier' = probe
    /\ pc' = "probed"
    /\ self' = [self EXCEPT !.detector = Detector_after_call(self.detector)]
    /\ UNCHANGED <<cls, kwargs, attempts, payload, i, ret, raised, warnings,
                   calls, other>>

Call_presidio_get_detected_entities ==
    /\ Probing("get_detected_entities")
    /\ cls.backend = "presidio"
    /\ \E unit \in ProbeTargets, threshold \in ProbeThresholds :
       \E answer \in Analyze(unit, self.detector) :
          probe' = Probed("get_detected_entities", unit, threshold, answer,
                          Presidio_get_detected_entities(
                              unit.content.chars, threshold, answer))
    /\ earlier' = probe
    /\ pc' = "probed"
    /\ self' = [self EXCEPT !.detector = Detector_after_call(self.detector)]
    /\ UNCHANGED <<cls, kwargs, attempts, payload, i, ret, raised, warnings,
                   calls, other>>

Call_presidio_get_detected_types ==
    /\ Probing("get_detected_types")
    /\ cls.backend = "presidio"
    /\ \E unit \in ProbeTargets, threshold \in ProbeThresholds :
       \E answer \in Analyze(unit, self.detector) :
       \E got \in Presidio_get_detected_types(unit.content.chars, threshold,
                                              answer) :
          probe' = Probed("get_detected_types", unit, threshold, answer, got)
    /\ earlier' = probe
    /\ pc' = "probed"
    /\ self' = [self EXCEPT !.detector = Detector_after_call(self.detector)]
    /\ UNCHANGED <<cls, kwargs, attempts, payload, i, ret, raised, warnings,
                   calls, other>>

Call_presidio_get_analysis_summary ==
    /\ Probing("get_analysis_summary")
    /\ cls.backend = "presidio"
    /\ \E unit \in ProbeTargets, threshold \in ProbeThresholds :
       \E answer \in Analyze(unit, self.detector) :
       \E got \in Presidio_get_analysis_summary(unit.content.chars, threshold,
                                                answer) :
          probe' = Probed("get_analysis_summary", unit, threshold, answer, got)
    /\ earlier' = probe
    /\ pc' = "probed"
    /\ self' = [self EXCEPT !.detector = Detector_after_call(self.detector)]
    /\ UNCHANGED <<cls, kwargs, attempts, payload, i, ret, raised, warnings,
                   calls, other>>

Call_regex_has_pii ==
    /\ Probing("has_pii")
    /\ cls.backend = "regex"
    /\ \E unit \in ProbeTargets :
          probe' = Probed("has_pii", unit, DefaultThreshold, NoAnswer,
                          Returned(Regex_has_pii(unit.content.chars), FALSE))
    /\ earlier' = probe
    /\ pc' = "probed"
    /\ self' = [self EXCEPT !.detector = Detector_after_call(self.detector)]
    /\ UNCHANGED <<cls, kwargs, attempts, payload, i, ret, raised, warnings,
                   calls, other>>

Call_regex_get_detected_types ==
    /\ Probing("get_detected_types")
    /\ cls.backend = "regex"
    /\ \E unit \in ProbeTargets :
          probe' = Probed("get_detected_types", unit, DefaultThreshold,
                          NoAnswer,
                          Returned(Regex_get_detected_types(
                                       unit.content.chars), FALSE))
    /\ earlier' = probe
    /\ pc' = "probed"
    /\ self' = [self EXCEPT !.detector = Detector_after_call(self.detector)]
    /\ UNCHANGED <<cls, kwargs, attempts, payload, i, ret, raised, warnings,
                   calls, other>>

(***************************************************************************)
(* Two invocations of the hook of one guardrail instance.  The variables   *)
(* data .. calls are the frame of the invocation that is running; other    *)
(* is the frame of the one that is suspended.                              *)
(***************************************************************************)
Frame(d, r, at, n, returned, exception, logged, called) ==
    [active |-> TRUE, data |-> d, response |-> r, pc |-> at, i |-> n,
     ret |-> returned, raised |-> exception, warnings |-> logged,
     calls |-> called]

\* the payloads of an invocation of a hook of class c with units from S
PayloadsOf(c, S, n) ==
    IF c.hook = "pre"
    THEN {[data |-> [messages |-> m],
           response |-> [is_model_response |-> FALSE, choices |-> <<>>]] :
             m \in {NoMessages} \cup {Messages(l) : l \in SeqsUpTo(S, n)}}
    ELSE {[data |-> [messages |-> Messages(<<>>)], response |-> r] :
             r \in {[is_model_response |-> FALSE, choices |-> <<>>]}
                   \cup {[is_model_response |-> TRUE, choices |-> l] :
                            l \in SeqsUpTo(S, n)}}

\* a text with PII and a text without
ConcurrentUnits(c) ==
    IF c.backend = "presidio"
    THEN {Unit(Str(MailText), TRUE, <<Result("PERSON", 0, 2, 85)>>),
          Unit(Str(CleanText), TRUE, <<>>)}
    ELSE {Unit(Str(MailText), TRUE, <<>>), Unit(Str(CleanText), TRUE, <<>>)}

ConcurrentKwargs == {<<>>, [block_on_detection |-> FALSE]}

\* a guardrail to construct, and two requests for it
InitConcurrent ==
    /\ cls \in Classes
    /\ kwargs \in ConcurrentKwargs
    /\ self = NoInstance
    /\ attempts = <<>>
    /\ \E p \in PayloadsOf(cls, ConcurrentUnits(cls), MaxConcurrentUnits) :
          /\ data = p.data
          /\ response = p.response
    /\ pc = "new"
    /\ i = 1
    /\ ret = NotReturned
    /\ raised = NotRaised
    /\ warnings = <<>>
    /\ calls = <<>>
    /\ probe = NoProbe
    /\ earlier = NoProbe
    /\ \E q \in PayloadsOf(cls, ConcurrentUnits(cls), MaxConcurrentUnits) :
          other = Frame(q.data, q.response, "ready", 1, NotReturned,
                        NotRaised, <<>>, <<>>)

\* a loop position kept on the instance and shared by the invocations
LoopIndex_shared(frame) == i

\* the loop position of an invocation is a local variable of its own
LoopIndex(frame) == frame.i

\* the event loop suspends the running invocation and resumes the other
Switch ==
    /\ other.active
    /\ pc \in {"ready", "scan", "done"}
    /\ other.pc # "done"
    /\ data' = other.data
    /\ response' = other.response
    /\ pc' = other.pc
    /\ i' = LoopIndex(other)
    /\ ret' = other.ret
    /\ raised' = other.raised
    /\ warnings' = other.warnings
    /\ calls' = other.calls
    /\ other' = Frame(data, response, pc, i, ret, raised, warnings, calls)
    /\ UNCHANGED <<config, probe, earlier>>

(***************************************************************************)
(* A pre-call guardrail and the post-call guardrail of the same backend,   *)
(* constructed with the same kwargs: the request is checked, then a        *)
(* response whose choices carry the contents of the request's messages     *)
(***************************************************************************)
PairUnits(c) ==
    IF c.backend = "presidio"
    THEN {Unit(NoContent, TRUE, <<>>),
          Unit(ListContent, TRUE, <<>>),
          Unit(Str(EmptyText), TRUE, <<>>),
          Unit(Str(CleanText), TRUE, <<>>),
          Unit(Str(MailText), TRUE, <<Result("PERSON", 0, 2, 85)>>),
          Unit(Str(MailText), TRUE,
               <<Result("PERSON", 0, 2, 85),
                 Result("EMAIL_ADDRESS", 3, 9, 100)>>)}
    ELSE {Unit(NoContent, TRUE, <<>>),
          Unit(ListContent, TRUE, <<>>),
          Unit(Str(EmptyText), TRUE, <<>>),
          Unit(Str(CleanText), TRUE, <<>>),
          Unit(Str(MailText), TRUE, <<>>),
          Unit(Str(PhoneText), TRUE, <<>>)}

InitPair ==
    /\ cls \in {PresidioPre, RegexPre}
    /\ kwargs \in KwargsOf(cls)
    /\ self = NoInstance
    /\ attempts = <<>>
    /\ \E l \in SeqsUpTo(PairUnits(cls), MaxConcurrentUnits) :
          /\ data = [messages |-> Messages(l)]
          /\ other = Frame([messages |-> Messages(<<>>)],
                           [is_model_response |-> TRUE, choices |-> l],
                           "ready", 1, NotReturned, NotRaised, <<>>, <<>>)
    /\ response = [is_model_response |-> FALSE, choices |-> <<>>]
    /\ pc = "new"
    /\ i = 1
    /\ ret = NotReturned
    /\ raised = NotRaised
    /\ warnings = <<>>
    /\ calls = <<>>
    /\ probe = NoProbe
    /\ earlier = NoProbe

\* The pre-call invocation is over; the post-call guardrail takes the
\* response.  Its instance has the fields of the pre-call one, built from
\* the same kwargs.
Counterpart ==
    /\ other.active
    /\ cls.hook = "pre"
    /\ pc = "done"
    /\ other.pc = "ready"
    /\ cls' = [cls EXCEPT !.hook = "post"]
    /\ data' = other.data
    /\ response' = other.response
    /\ pc' = other.pc
    /\ i' = other.i
    /\ ret' = other.ret
    /\ raised' = other.raised
    /\ warnings' = other.warnings
    /\ calls' = other.calls
    /\ other' = Frame(data, response, pc, i, ret, raised, warnings, calls)
    /\ UNCHANGED <<kwargs, self, attempts, probe, earlier>>

(***************************************************************************)
(* One invocation, followed to its end                                     *)
(***************************************************************************)
\* a text with PII, a text without and a content that is no text
LiveUnits(c) == ConcurrentUnits(c) \cup {Unit(ListContent, TRUE, <<>>)}

InitLive ==
    /\ cls \in Classes
    /\ kwargs \in KwargsOf(cls)
    /\ self = NoInstance
    /\ attempts = <<>>
    /\ \E p \in PayloadsOf(cls, LiveUnits(cls), MaxLiveUnits) :
          /\ data = p.data
          /\ response = p.response
    /\ pc = "new"
    /\ i = 1
    /\ ret = NotReturned
    /\ raised = NotRaised
    /\ warnings = <<>>
    /\ calls = <<>>
    /\ probe = NoProbe
    /\ earlier = NoProbe
    /\ other = NoFrame

(***************************************************************************)
(* The specification                                                       *)
(***************************************************************************)
Next ==
    \/ PresidioGuardrail_init
    \/ RegexGuardrail_init
    \/ PresidioPre_begin
    \/ PresidioPre_unit
    \/ PresidioPre_return
    \/ PresidioPost_begin
    \/ PresidioPost_unit
    \/ PresidioPost_return
    \/ RegexPre_begin
    \/ RegexPre_unit
    \/ RegexPre_return
    \/ RegexPost_begin
    \/ RegexPost_unit
    \/ RegexPost_return
    \/ Call_presidio_has_pii
    \/ Call_presidio_get_detected_entities
    \/ Call_presidio_get_detected_types
    \/ Call_presidio_get_analysis_summary
    \/ Call_regex_has_pii
    \/ Call_regex_get_detected_types

Spec == Init /\ [][Next]_vars

NextConcurrent ==
    \/ PresidioGuardrail_init
    \/ RegexGuardrail_init
    \/ PresidioPre_begin
    \/ PresidioPre_unit
    \/ PresidioPre_return
    \/ PresidioPost_begin
    \/ PresidioPost_unit
    \/ PresidioPost_return
    \/ RegexPre_begin
    \/ RegexPre_unit
    \/ RegexPre_return
    \/ RegexPost_begin
    \/ RegexPost_unit
    \/ RegexPost_return
    \/ Switch

SpecConcurrent == InitConcurrent /\ [][NextConcurrent]_vars

NextLive ==
    \/ PresidioGuardrail_init
    \/ RegexGuardrail_init
    \/ PresidioPre_begin
    \/ PresidioPre_unit
    \/ PresidioPre_return
    \/ PresidioPost_begin
    \/ PresidioPost_unit
    \/ PresidioPost_return
    \/ RegexPre_begin
    \/ RegexPre_unit
    \/ RegexPre_return
    \/ RegexPost_begin
    \/ RegexPost_unit
    \/ RegexPost_return

\* the constructor and the hooks are straight-line code with no await: a
\* step that can be taken is taken
SpecLive == InitLive /\ [][NextLive]_vars /\ WF_vars(NextLive)

NextPair ==
    \/ PresidioGuardrail_init
    \/ RegexGuardrail_init
    \/ PresidioPre_begin
    \/ PresidioPre_unit
    \/ PresidioPre_return
    \/ PresidioPost_begin
    \/ PresidioPost_unit
    \/ PresidioPost_return
    \/ RegexPre_begin
    \/ RegexPre_unit
    \/ RegexPre_return
    \/ RegexPost_begin
    \/ RegexPost_unit
    \/ RegexPost_return
    \/ Counterpart

SpecPair == InitPair /\ [][NextPair]_vars

(***************************************************************************)
(* Vocabulary of the properties                                            *)
(***************************************************************************)
\* the text units of the invocation, in their order
Units == IF cls.hook = "pre" THEN data.messages.list ELSE response.choices

Blocked == raised.kind = "ValueError"

ReturnedNormally == pc = "done" /\ ret.kind # "pending"

\* a detection ends the invocation: the pattern-backed hooks have no switch
BlockingOn ==
    self.created /\ (cls.backend = "regex" \/ self.block_on_detection)

NonBlocking ==
    self.created /\ cls.backend = "presidio" /\ ~self.block_on_detection

\* has_pii was called on unit n
Evaluated(n) ==
    \E k \in DOMAIN calls : calls[k].unit = n /\ calls[k].op = "has_pii"

\* has_pii was called on unit n and answered True
Flagged(n) ==
    \E k \in DOMAIN calls :
        calls[k].unit = n /\ calls[k].op = "has_pii" /\ calls[k].has_pii

\* unit n carries a text the hook has to look at
Textual(n) ==
    /\ Units[n].content.type = "str"
    /\ cls.hook = "post" =>
          Units[n].is_choices /\ Units[n].content.chars # <<>>

\* the findings of a healthy recognizer that count under the configuration
Counted(unit) ==
    {r \in Range(unit.found) :
        /\ r.entity_type \in Range(self.detector.entities_to_detect)
        /\ r.score >= self.threshold}

\* what the recognizer did in a logged call, as an answer
AnswerOf(unit, engine) ==
    IF engine = "answered"
    THEN [ok |-> TRUE,
          results |-> Allowed(unit.found, self.detector.entities_to_detect)]
    ELSE [ok |-> FALSE, results |-> <<>>]

\* the names of the matchers that find something in a text
Fired(chars) ==
    {name \in {"email", "ssn", "phone", "credit_card"} :
        Search(CASE name = "email" -> email_pattern
                 [] name = "ssn" -> ssn_pattern
                 [] name = "phone" -> phone_pattern
                 [] name = "credit_card" -> credit_card_pattern, chars)}

\* the unit has PII at or above the configured threshold
HasPII(unit) ==
    IF cls.backend = "regex"
    THEN Fired(unit.content.chars) # {}
    ELSE (\E c \in Range(unit.content.chars) : c \notin Whitespace)
         /\ Counted(unit) # {}

(***************************************************************************)
(* C1.  With blocking enabled an invocation does not return normally when  *)
(* an evaluated unit has PII at or above the threshold: it ends in the     *)
(* policy violation wherever the unit stands, and it returns normally only *)
(* if the detector found PII in no evaluated unit.  ("Has PII" is what the *)
(* detector finds; a unit whose analysis failed counts as found clean.)    *)
(***************************************************************************)
C1_BlockingNeverPasses ==
    (pc = "done" /\ BlockingOn) =>
        /\ ReturnedNormally <=> ~\E n \in DOMAIN Units : Flagged(n)
        /\ ReturnedNormally <=> ~Blocked
        /\ \A k \in DOMAIN calls :
              (/\ calls[k].op = "has_pii"
               /\ calls[k].engine # "failed"
               /\ HasPII(Units[calls[k].unit])) => Blocked /\ ~ReturnedNormally

C1_Witness ==
    /\ pc = "done"
    /\ BlockingOn
    /\ Blocked
    /\ Len(Units) = 2
    /\ raised.unit = 2
    /\ HasPII(Units[2])

(***************************************************************************)
(* C2.  Units are scanned in their order, and once unit i raises the       *)
(* blocking violation - the first unit found to have PII - the detector is *)
(* not invoked on any later unit.                                          *)
(***************************************************************************)
C2_ShortCircuit ==
    /\ \A k, l \in DOMAIN calls : k < l => calls[k].unit <= calls[l].unit
    /\ Blocked =>
          /\ \A k \in DOMAIN calls : calls[k].unit <= raised.unit
          /\ \A n \in 1..(raised.unit - 1) : ~Flagged(n)
          /\ Flagged(raised.unit)
          /\ pc = "done"

C2_Witness ==
    /\ Blocked
    /\ raised.unit = 1
    /\ Len(Units) = 2
    /\ Evaluated(1)
    /\ Textual(2)
    /\ HasPII(Units[2])
    /\ ~Evaluated(2)

TypesOf(unit) ==
    IF cls.backend = "regex"
    THEN Fired(unit.content.chars)
    ELSE {r.entity_type : r \in Counted(unit)}

(***************************************************************************)
(* C5.  The types a pre-call violation carries are exactly the types       *)
(* detected in the unit that raised it, the first unit with PII; no        *)
(* earlier unit is flagged.                                                *)
(***************************************************************************)
C5_ViolationNamesFirstUnit ==
    (Blocked /\ cls.hook = "pre") =>
        /\ Range(raised.message.detected) = TypesOf(Units[raised.unit])
        /\ \A n \in 1..(raised.unit - 1) :
              /\ ~Flagged(n)
              /\ \A w \in DOMAIN warnings : warnings[w].unit # n

\* the message a hook of this class raises for the outcome of its type call
MessageOf(value) ==
    CASE cls = PresidioPre -> PresidioPre_message(value, self.threshold)
      [] cls = PresidioPost -> PresidioPost_message(value, self.threshold)
      [] cls = RegexPre -> RegexPre_message(value)
      [] cls = RegexPost -> RegexPost_message(value)

\* the messages the invocations of this guardrail can raise, whatever the
\* text of the unit and whatever the recognizer does
Messages_possible ==
    IF cls.backend = "regex"
    THEN {MessageOf(Regex_get_detected_types(u.content.chars)) :
             u \in {v \in UnitsOf(cls) : IsStr(v.content)}}
    ELSE UNION {UNION {{MessageOf(got.value) :
                          got \in Presidio_get_analysis_summary(
                                      u.content.chars, self.threshold, a)} :
                       a \in Analyze(u, self.detector)} :
                u \in {v \in UnitsOf(cls) : IsStr(v.content)}}

\* the types the blocking unit's type call reports
ReportedTypes ==
    IF calls[Len(calls)].engine = "failed"
    THEN {}
    ELSE TypesOf(Units[raised.unit])

Prefix ==
    CASE cls = PresidioPre -> "Pre-call Presidio guardrail blocked PII detected"
      [] cls = PresidioPost ->
           "Post-call Presidio guardrail blocked PII detected"
      [] cls = RegexPre -> "Pre-call guardrail blocked PII detected"
      [] cls = RegexPost -> "Post-call guardrail blocked PII detected"

\* the pattern detector lists its types in this order
RegexOrder == <<"email", "ssn", "phone", "credit_card">>

(***************************************************************************)
(* C6.  The message of a violation depends on the detected types and the   *)
(* threshold only.  Stated as claimed and as amended below.                *)
(***************************************************************************)
\* C6 as claimed: any invocation that yields the same set of types raises
\* the same message
C6_SameTypesSameMessage ==
    Blocked =>
        \A m \in Messages_possible :
            Range(m.detected) = Range(raised.message.detected)
                => m = raised.message

\* C6 as amended: the message is the class's prefix, the reported types
\* listed once each (in the fixed order of the pattern detector; in some
\* order for the contextual detector) and, for the contextual detector, the
\* configured threshold; nothing else enters it
C6_MessageFromTypesUpToOrder ==
    Blocked =>
        /\ raised.message.prefix = Prefix
        /\ raised.message.detected \in ListsOfSet(ReportedTypes)
        /\ IF cls.backend = "regex"
           THEN /\ DOMAIN raised.message = {"prefix", "detected"}
                /\ raised.message.detected =
                     SelectSeq(RegexOrder, LAMBDA t : t \in ReportedTypes)
           ELSE /\ DOMAIN raised.message = {"prefix", "detected", "threshold"}
                /\ raised.message.threshold = self.threshold

C6_Witness ==
    /\ Blocked
    /\ cls = PresidioPre
    /\ raised.message.detected = <<"EMAIL_ADDRESS", "PERSON">>
    /\ Units[raised.unit].found[1].entity_type = "PERSON"

\* what a detector method returns when it finds nothing
NoPiiResult(method, out) ==
    CASE method = "has_pii" -> out = FALSE
      [] method = "get_detected_entities" -> out = <<>>
      [] method = "get_detected_types" -> out = <<>>
      [] method = "get_analysis_summary" ->
           /\ out.has_pii = FALSE
           /\ out.entities = <<>>
           /\ out.entity_types = <<>>
           /\ out.entity_count = 0

(***************************************************************************)
(* C7.  A recognizer call that fails inside has_pii,                       *)
(* get_detected_entities, get_detected_types or get_analysis_summary is    *)
(* caught: the method returns its "no PII" result, no exception reaches    *)
(* the hook, and after a failed has_pii the scan is at the next unit.      *)
(***************************************************************************)
C7_FailOpen ==
    /\ \A k \in DOMAIN calls :
          calls[k].engine = "failed" =>
              /\ ~calls[k].has_pii
              /\ calls[k].types = <<>>
              /\ calls[k].op = "has_pii" => i > calls[k].unit
    /\ pc # "init_failed" => raised.kind # "Exception"
    /\ (probe.method # "none" /\ probe.engine = "failed") =>
          ~probe.raised /\ NoPiiResult(probe.method, probe.out)

C7_Witness ==
    /\ ReturnedNormally
    /\ BlockingOn
    /\ Len(Units) = 2
    /\ \E k \in DOMAIN calls :
          /\ calls[k].unit = 1
          /\ calls[k].op = "has_pii"
          /\ calls[k].engine = "failed"
    /\ HasPII(Units[1])
    /\ Evaluated(2)

(***************************************************************************)
(* C8.  Construction tries the spaCy-backed recognizer first and the       *)
(* default recognizer only if that fails; the detector works with the      *)
(* first that can be built; if neither can, the error leaves the           *)
(* constructor and there is no guardrail instance, hence no hook runs.     *)
(***************************************************************************)
C8_FallbackChain ==
    /\ (cls.backend = "presidio" /\ pc # "new") =>
          /\ Len(attempts) \in {1, 2}
          /\ attempts[1].configuration = "spacy"
          /\ Len(attempts) = 2 <=> ~attempts[1].ok
          /\ Len(attempts) = 2 => attempts[2].configuration = "default"
          /\ self.created <=> attempts[Len(attempts)].ok
          /\ self.created =>
                self.detector.analyzer = attempts[Len(attempts)].configuration
          /\ ~self.created <=> (pc = "init_failed" /\ raised.kind = "Exception")
    /\ pc \in {"ready", "scan", "done", "probed"} => self.created

C8_Witness ==
    /\ pc = "done"
    /\ self.created
    /\ cls.backend = "presidio"
    /\ self.detector.analyzer = "default"
    /\ Len(calls) > 0

\* an empty or whitespace-only text
AllWhitespace(chars) == \A c \in Range(chars) : c \in Whitespace

(***************************************************************************)
(* C9.  has_pii is false for an empty or whitespace-only text with either  *)
(* detector, and the contextual detector answers such a text without       *)
(* calling the recognizer.                                                 *)
(***************************************************************************)
C9_BlankIsClean ==
    /\ \A k \in DOMAIN calls :
          AllWhitespace(Units[calls[k].unit].content.chars) =>
              /\ ~calls[k].has_pii
              /\ calls[k].engine = "unused"
    /\ (probe.method # "none" /\ AllWhitespace(probe.unit.content.chars)) =>
          /\ probe.engine = "unused"
          /\ probe.method = "has_pii" => probe.out = FALSE
          /\ probe.method = "get_detected_types" => probe.out = <<>>
          /\ cls.backend = "presidio" => NoPiiResult(probe.method, probe.out)

C9_Witness ==
    /\ cls.backend = "presidio"
    /\ probe.method = "has_pii"
    /\ probe.unit.content.chars = <<"\t", " ">>
    /\ probe.unit.found # <<>>
    /\ probe.out = FALSE

(***************************************************************************)
(* C10.  A unit whose content is absent or not a text (for a choice also:  *)
(* empty, or not a litellm.Choices) is skipped: no detector call, no       *)
(* warning and no violation is about it, and the units after it are        *)
(* evaluated as if it were not there.                                      *)
(***************************************************************************)
C10_SkippedUnits ==
    /\ \A k \in DOMAIN calls : Textual(calls[k].unit)
    /\ \A w \in DOMAIN warnings : Textual(warnings[w].unit)
    /\ Blocked => Textual(raised.unit)
    /\ pc \in {"scan", "done"} =>
          \A n \in DOMAIN Units : (n < i /\ Textual(n)) => Evaluated(n)
    /\ ReturnedNormally => i = Len(Units) + 1

C10_Witness ==
    /\ pc = "done"
    /\ Len(Units) = 2
    /\ ~Textual(1)
    /\ Units[1].content.type = "list"
    /\ Blocked
    /\ raised.unit = 2

(***************************************************************************)
(* C11.  Pattern detector: has_pii is true exactly when one of the four    *)
(* matchers fires, get_detected_types lists exactly the matchers that      *)
(* fired (each once), so has_pii holds exactly when get_detected_types is  *)
(* non-empty; a text without a structured format is clean and is let       *)
(* through by the hooks.                                                   *)
(***************************************************************************)
C11_MatchersDecide ==
    cls.backend = "regex" =>
        /\ probe.method = "has_pii" =>
              probe.out = (Fired(probe.unit.content.chars) # {})
        /\ probe.method = "get_detected_types" =>
              /\ Range(probe.out) = Fired(probe.unit.content.chars)
              /\ Len(probe.out) = Cardinality(Range(probe.out))
        /\ probe.method = "has_pii" =>
              probe.out =
                  (Regex_get_detected_types(probe.unit.content.chars) # <<>>)
        /\ probe.method = "get_detected_types" =>
              (probe.out # <<>>) = Regex_has_pii(probe.unit.content.chars)
        /\ \A k \in DOMAIN calls :
              /\ calls[k].op = "has_pii" =>
                    calls[k].has_pii =
                        (Fired(Units[calls[k].unit].content.chars) # {})
              /\ calls[k].op = "get_detected_types" =>
                    Range(calls[k].types) =
                        Fired(Units[calls[k].unit].content.chars)
        /\ ReturnedNormally <=>
              (pc = "done" /\ \A n \in DOMAIN Units :
                                Textual(n) => Fired(Units[n].content.chars) = {})

C11_Witness ==
    /\ cls.backend = "regex"
    /\ probe.method = "get_detected_types"
    /\ probe.unit.content.chars = PhoneText
    /\ Regex_has_pii(PhoneText)
    /\ probe.out = <<"phone">>

\* two calls of the same method met the same recognizer behaviour
SameBackend ==
    /\ earlier.method # "none"
    /\ earlier.method = probe.method
    /\ earlier.engine = probe.engine

RECURSIVE IsSubSeq(_, _)
\* s is t with some elements left out
IsSubSeq(s, t) ==
    IF s = <<>> THEN TRUE
    ELSE IF t = <<>> THEN FALSE
    ELSE IF Head(s) = Head(t) THEN IsSubSeq(Tail(s), Tail(t))
    ELSE IsSubSeq(s, Tail(t))

(***************************************************************************)
(* C12.  Threshold monotonicity of the contextual detector: on one text    *)
(* and one recognizer output, get_detected_entities at the higher of two   *)
(* thresholds returns no more entities than at the lower (it returns some  *)
(* of the same entities, in the same order), every returned entity scores  *)
(* at least the threshold used, and has_pii at the higher threshold        *)
(* implies has_pii at the lower.                                           *)
(***************************************************************************)
C12_ThresholdMonotone ==
    cls.backend = "presidio" =>
        /\ probe.method = "get_detected_entities" =>
              \A k \in DOMAIN probe.out : probe.out[k].score >= probe.threshold
        /\ (SameBackend /\ probe.method = "get_detected_entities") =>
              /\ earlier.threshold <= probe.threshold =>
                    /\ Len(probe.out) <= Len(earlier.out)
                    /\ IsSubSeq(probe.out, earlier.out)
              /\ earlier.threshold >= probe.threshold =>
                    /\ Len(earlier.out) <= Len(probe.out)
                    /\ IsSubSeq(earlier.out, probe.out)
        /\ (SameBackend /\ probe.method = "has_pii") =>
              /\ earlier.threshold <= probe.threshold =>
                    (probe.out => earlier.out)
              /\ earlier.threshold >= probe.threshold =>
                    (earlier.out => probe.out)

\* the entity found at 0.85 and the one at 1.0 at threshold 0.5, only the
\* latter at 0.9
C12_Witness ==
    /\ cls.backend = "presidio"
    /\ SameBackend
    /\ probe.method = "get_detected_entities"
    /\ earlier.threshold = 50
    /\ probe.threshold = 90
    /\ Len(earlier.out) = 2
    /\ Len(probe.out) = 1
    /\ probe.out[1].entity_type = "EMAIL_ADDRESS"

\* two results of one detector method are the same result; the type lists
\* are compared as the sets they are built from
SameResult(method, a, b) ==
    CASE method = "get_detected_types" -> Range(a) = Range(b) /\ Len(a) = Len(b)
      [] method = "get_analysis_summary" ->
           /\ a.has_pii = b.has_pii
           /\ a.entity_count = b.entity_count
           /\ a.entities = b.entities
           /\ Range(a.entity_types) = Range(b.entity_types)
           /\ Len(a.entity_types) = Len(b.entity_types)
      [] OTHER -> a = b

C14_SummaryInvariant ==
    (cls.backend = "presidio" /\ probe.method = "get_analysis_summary") =>
        /\ probe.out.has_pii = (Len(probe.out.entities) > 0)
        /\ probe.out.entity_count = Len(probe.out.entities)
        /\ Range(probe.out.entity_types) =
              {str_lower(probe.out.entities[k].entity_type) :
                  k \in DOMAIN probe.out.entities}
        /\ \A got \in Presidio_get_detected_types(
                          probe.unit.content.chars, probe.threshold,
                          AnswerOf(probe.unit, probe.engine)) :
              Range(probe.out.entity_types) = Range(got.value)

(***************************************************************************)
(* C15.  A pattern-backed pre-call invocation of a guardrail constructed   *)
(* with block_on_detection=False, on one message that contains a phone     *)
(* number, returns the payload unchanged and logs a warning that lists     *)
(* "phone".                                                                *)
(***************************************************************************)
C15_RegexPreHonoursSwitch ==
    (/\ cls = RegexPre
     /\ pc = "done"
     /\ "block_on_detection" \in DOMAIN kwargs
     /\ ~kwargs["block_on_detection"]
     /\ Len(Units) = 1
     /\ IsStr(Units[1].content)
     /\ "phone" \in Fired(Units[1].content.chars)) =>
        /\ ReturnedNormally
        /\ ret = ReturnedData(data)
        /\ raised = NotRaised
        /\ \E w \in DOMAIN warnings : "phone" \in Range(warnings[w].types)

\* the frame of the invocation that is running
Running == Frame(data, response, pc, i, ret, raised, warnings, calls)

FrameUnits(f) ==
    IF cls.hook = "pre" THEN f.data.messages.list ELSE f.response.choices

\* unit n of the invocation carries a text its hook has to look at
FrameTextual(f, n) ==
    LET unit == FrameUnits(f)[n]
    IN  /\ IsStr(unit.content)
        /\ cls.hook = "post" => unit.is_choices /\ unit.content.chars # <<>>

\* what has_pii owes to the text of a unit, the configuration of the
\* guardrail and the recognizer behaviour of its own call
VerdictAlone(unit, engine) ==
    IF cls.backend = "regex"
    THEN Regex_has_pii(unit.content.chars)
    ELSE Presidio_has_pii(unit.content.chars, self.threshold,
                          AnswerOf(unit, engine)).value

\* the units the invocation's own has_pii calls flagged
FlaggedAlone(f) ==
    {n \in DOMAIN FrameUnits(f) :
        \E k \in DOMAIN f.calls :
            /\ f.calls[k].unit = n
            /\ f.calls[k].op = "has_pii"
            /\ VerdictAlone(FrameUnits(f)[n], f.calls[k].engine)}

\* The decision of an invocation is the one its own units, the
\* configuration and the recognizer's answers to its own calls prescribe:
\* every text unit up to the first flagged one is evaluated, once, in order;
\* a blocking guardrail raises at the first flagged unit, otherwise the hook
\* returns.
DecidesAlone(f) ==
    LET units == FrameUnits(f)
        flagged == FlaggedAlone(f)
        blocks == cls.backend = "regex" \/ self.block_on_detection
        evaluated(n) ==
            Cardinality({k \in DOMAIN f.calls :
                            f.calls[k].unit = n /\ f.calls[k].op = "has_pii"}) = 1
    IN  /\ \A k \in DOMAIN f.calls :
              /\ f.calls[k].unit \in DOMAIN units
              /\ FrameTextual(f, f.calls[k].unit)
              /\ f.calls[k].op = "has_pii" =>
                    f.calls[k].has_pii =
                        VerdictAlone(units[f.calls[k].unit], f.calls[k].engine)
        /\ f.pc = "done" =>
              IF blocks /\ flagged # {}
              THEN LET first == CHOOSE n \in flagged : \A m \in flagged : n <= m
                   IN  /\ f.raised.kind = "ValueError"
                       /\ f.raised.unit = first
                       /\ f.ret = NotReturned
                       /\ \A n \in 1..first : FrameTextual(f, n) => evaluated(n)
                       /\ \A k \in DOMAIN f.calls : f.calls[k].unit <= first
              ELSE /\ f.raised = NotRaised
                   /\ f.ret = IF cls.hook = "pre"
                              THEN ReturnedData(f.data)
                              ELSE ReturnedNone
                   /\ \A n \in DOMAIN units : FrameTextual(f, n) => evaluated(n)

(***************************************************************************)
(* C16.  After construction no step of a hook writes the configuration     *)
(* (class, kwargs, the instance with language, entities, threshold,        *)
(* block_on_detection and detector), and however two invocations on one    *)
(* instance interleave, each reaches the decision it reaches alone.        *)
(***************************************************************************)
C16_ReadOnlyAndIsolated ==
    /\ [](self.created =>
            /\ DecidesAlone(Running)
            /\ other.active => DecidesAlone(other))
    /\ [][pc # "new" => UNCHANGED <<cls, kwargs, self, attempts>>]_vars

\* an invocation blocks at its second unit while the other, suspended in
\* its loop after its first unit, has yet to finish
C16_Witness ==
    /\ other.active
    /\ pc = "done"
    /\ raised.kind = "ValueError"
    /\ raised.unit = 2
    /\ other.pc = "scan"
    /\ other.i = 2
    /\ Len(other.calls) > 0
    /\ Len(FrameUnits(other)) = 2

\* the recognizer behaved the same in the calls the two invocations made
\* on the same unit
SameBehaviour ==
    \A k \in DOMAIN calls, l \in DOMAIN other.calls :
        (calls[k].unit = other.calls[l].unit /\ calls[k].op = other.calls[l].op)
            => calls[k].engine = other.calls[l].engine

(***************************************************************************)
(* C17.  On the same sequence of unit contents, with the same              *)
(* configuration and the same recognizer behaviour, the pre-call hook      *)
(* raises a violation iff the post-call hook of the same backend does, at  *)
(* the same unit and with the same detected types; otherwise both return.  *)
(***************************************************************************)
C17_PrePostAgree ==
    (/\ other.active
     /\ cls.hook = "post"
     /\ pc = "done"
     /\ other.pc = "done"
     /\ SameBehaviour) =>
        /\ Blocked <=> other.raised.kind = "ValueError"
        /\ Blocked =>
              /\ raised.unit = other.raised.unit
              /\ Range(raised.message.detected) =
                    Range(other.raised.message.detected)
              /\ Len(raised.message.detected) =
                    Len(other.raised.message.detected)
              /\ cls.backend = "regex" =>
                    raised.message.detected = other.raised.message.detected
        /\ ~Blocked =>
              /\ ret = ReturnedNone
              /\ other.ret = ReturnedData(other.data)
              /\ raised = NotRaised
              /\ other.raised = NotRaised

\* both hooks block at the second unit, after an empty text that only
\* the pre-call hook hands to the detector
C17_Witness ==
    /\ other.active
    /\ cls = PresidioPost
    /\ pc = "done"
    /\ other.pc = "done"
    /\ SameBehaviour
    /\ Blocked
    /\ raised.unit = 2
    /\ other.raised.unit = 2
    /\ Units[1].content = Str(EmptyText)
    /\ Cardinality(Range(raised.message.detected)) = 2

\* the invocation is over: it passed or it raised the policy violation
Terminal ==
    /\ pc = "done"
    /\ \/ ReturnedNormally /\ raised = NotRaised
       \/ Blocked /\ ret = NotReturned

(***************************************************************************)
(* C18.  Every invocation ends, in a pass or in the policy violation,      *)
(* whatever the recognizer does (it may fail in every call).  A detector   *)
(* method is called at most once per unit; a failed call has completed as  *)
(* "no PII" and the scan has moved on.                                     *)
(***************************************************************************)
C18_Terminates ==
    /\ (pc = "ready") ~> Terminal
    /\ [](pc = "done" => Terminal)
    /\ [](\A k, l \in DOMAIN calls :
            (calls[k].unit = calls[l].unit /\ calls[k].op = calls[l].op)
                => k = l)
    /\ [](\A k \in DOMAIN calls :
            calls[k].engine = "failed" =>
                /\ ~calls[k].has_pii
                /\ calls[k].op = "has_pii" => i > calls[k].unit)
    /\ [](Len(calls) <= 2 * Len(Units))

\* the recognizer failed in the call for either unit; the invocation passed
C18_Witness ==
    /\ Terminal
    /\ ReturnedNormally
    /\ cls.backend = "presidio"
    /\ Len(Units) = 2
    /\ Len(calls) = 2
    /\ \A k \in DOMAIN calls : calls[k].engine = "failed"
    /\ HasPII(Units[1])

(***************************************************************************)
(* C19.  A blocking violation always carries at least one detected entity  *)
(* type, whatever the recognizer does in the two calls the contextual      *)
(* hooks make for the unit (has_pii, then get_analysis_summary).           *)
(***************************************************************************)
C19_ViolationHasTypes == Blocked => raised.message.detected # <<>>

====
